---- MODULE Spec2Model ----
(***************************************************************************)
(* Model of the wgpu-study renderers.                                      *)
(*                                                                         *)
(*   Spec     src/renderer/renderer.rs  bloom renderer: render targets,    *)
(*            bright-pass, blur down/upsample cascade, compose             *)
(*   SpecMod  src/renderer/mod.rs       forward renderer with a depth      *)
(*            attachment                                                   *)
(*   SpecRs   src/renderer.rs           particle bundle + composite pass   *)
(*                                                                         *)
(* A GPU texture is identified by the allocation that created it; a        *)
(* texture view, bind group entry or attachment refers to a texture by     *)
(* that identity.  Every struct of the source is a record with the         *)
(* source's field names.                                                   *)
(***************************************************************************)
EXTENDS Integers, Sequences, FiniteSets, TLC

VARIABLES renderer, frame_log, status,
          mod_renderer, mod_frame,
          rs_renderer, rs_frame,
          main_loop, main_frame,
          bloom_pass, bloom_frame,
          app_env, app,
          particle, instances,
          particle_renderer, particle_frame, particle_pass, particle_pass_frame,
          program

vars == <<renderer, frame_log, status, mod_renderer, mod_frame, rs_renderer, rs_frame,
          main_loop, main_frame, bloom_pass, bloom_frame, app_env, app,
          particle, instances,
          particle_renderer, particle_frame, particle_pass, particle_pass_frame, program>>

bloom_vars == <<renderer, frame_log>>
mod_vars == <<mod_renderer, mod_frame>>
rs_vars == <<rs_renderer, rs_frame>>
main_vars == <<main_loop, main_frame>>
bloom_pass_vars == <<bloom_pass, bloom_frame>>
app_vars == <<app_env, app>>
instances_vars == <<particle, instances>>
particle_vars == <<particle_renderer, particle_frame, particle_pass, particle_pass_frame>>

renderer_vars == <<bloom_vars, mod_vars, rs_vars>>
\* program names the source file whose program the behaviour runs
program_vars == <<main_vars, bloom_pass_vars, app_vars, instances_vars, particle_vars, program>>

(***************************************************************************)
(* Bounds                                                                  *)
(***************************************************************************)
MaxWidth == 9
MaxHeight == 2
MaxResizes == 2
MaxScene == 2

Sizes == {[width |-> w, height |-> h] : w \in 1..MaxWidth, h \in 1..MaxHeight}
Scenes == 1..MaxScene

(***************************************************************************)
(* Texture formats                                                         *)
(***************************************************************************)
HDR_TEXTURE_FORMAT == "Rgba16Float"
DEPTH_TEXTURE_FORMAT == "Depth32Float"
\* the formats Surface::get_preferred_format can report
SurfaceFormats == {"Bgra8UnormSrgb", "Rgba16Float"}

\* 2u32.pow(n)
RECURSIVE Pow2(_)
Pow2(n) == IF n = 0 THEN 1 ELSE 2 * Pow2(n - 1)

Take(s, n) == SubSeq(s, 1, n)
Last(s) == s[Len(s)]

(***************************************************************************)
(* src/renderer/renderer.rs : RenderTargets                                *)
(***************************************************************************)
\* a texture view is named by the RenderTargets generation that allocated
\* its texture, the texture's label and the label's index
View(alloc, name, index) == [alloc |-> alloc, name |-> name, index |-> index]
SurfaceView == View(0, "surface", 0)

create_render_target_texture_view(alloc, name, index, width, height, format) ==
    [texture_view |-> View(alloc, name, index),
     width |-> width, height |-> height, format |-> format]

base_divisor == 2
num_levels == 4

DownsampleDivisor(i) == base_divisor * Pow2(1 + i)
UpsampleDivisor(i) == base_divisor * Pow2(i)

RenderTargets_new(device, width, height) ==
    LET alloc == device.epoch IN
    [color |-> create_render_target_texture_view(
                   alloc, "Color Texture", 0, width, height, HDR_TEXTURE_FORMAT),
     depth |-> create_render_target_texture_view(
                   alloc, "Depth Texture", 0, width, height, DEPTH_TEXTURE_FORMAT),
     bright_pass |-> create_render_target_texture_view(
                   alloc, "Bright Pass Texture", 0, width, height, HDR_TEXTURE_FORMAT),
     bloom_blur_downsample |->
         [k \in 1..num_levels |->
             LET i == k - 1
                 divisor == DownsampleDivisor(i)
             IN create_render_target_texture_view(
                    alloc, "Bloom Blur Downsample Texture", i,
                    width \div divisor, height \div divisor, HDR_TEXTURE_FORMAT)],
     bloom_blur_upsample |->
         [k \in 1..num_levels |->
             LET i == num_levels - k      \* (0..num_levels).rev()
                 divisor == UpsampleDivisor(i)
             IN create_render_target_texture_view(
                    alloc, "Bloom Blur Upsample Texture", i,
                    width \div divisor, height \div divisor, HDR_TEXTURE_FORMAT)]]

(***************************************************************************)
(* The device.  Everything the renderer creates is created by the device;  *)
(* epoch counts the constructions it has served: 1 is Renderer::new, each  *)
(* Renderer::resize is one more.  A texture and a render pipeline carry    *)
(* the epoch that created them.                                            *)
(***************************************************************************)
Device_new == [epoch |-> 0]
Device_next(device) == [epoch |-> device.epoch + 1]

(***************************************************************************)
(* Render passes.  A pass keeps its render pipeline (the epoch that built  *)
(* it), the pipeline's colour target format, the texture views its bind    *)
(* group samples and, where it has one, the content of its uniform buffer  *)
(* (0: created, never written).                                            *)
(***************************************************************************)
ParticleRendererBuilder_build(device, color_format, depth_format) ==
    [render_pipeline |-> device.epoch,
     color_format |-> color_format, depth_format |-> depth_format, uniform_buffer |-> 0]

BrightPassRenderPass_new(device, src_texture_view, color_target_format) ==
    [render_pipeline |-> device.epoch,
     src |-> src_texture_view, format |-> color_target_format, uniform_buffer |-> 0]

BlurDownsampleRenderPass_new(device, src_texture_view, color_target_format, width, height) ==
    [render_pipeline |-> device.epoch,
     src |-> src_texture_view, format |-> color_target_format,
     width |-> width, height |-> height]

BlurUpsampleRenderPass_new(device, src_texture_view, color_target_format, width, height) ==
    [render_pipeline |-> device.epoch,
     src |-> src_texture_view, format |-> color_target_format,
     width |-> width, height |-> height]

ComposeRenderPass_new(device, color_texture_view, bloom_texture_view, render_target_format) ==
    [render_pipeline |-> device.epoch,
     color |-> color_texture_view, bloom |-> bloom_texture_view,
     format |-> render_target_format, uniform_buffer |-> 0]

configure_surface(format, width, height) ==
    [format |-> format, width |-> width, height |-> height]

(***************************************************************************)
(* src/renderer/renderer.rs : Renderer                                     *)
(***************************************************************************)
\* variant: the bright-pass target is left out of the sources
new_bloom_blur_downsample_render_passes_ButLast(device, render_targets) ==
    LET src_texture_views ==
            Take(render_targets.bloom_blur_downsample,
                 Len(render_targets.bloom_blur_downsample) - 1)
        pass(src_texture_view) ==
            BlurDownsampleRenderPass_new(device, src_texture_view.texture_view,
                                         HDR_TEXTURE_FORMAT,
                                         src_texture_view.width \div 2,
                                         src_texture_view.height \div 2)
    IN [k \in 1..Len(src_texture_views) |-> pass(src_texture_views[k])]

\* Renderer::new, lines 71-90
new_bloom_blur_downsample_render_passes(device, render_targets) ==
    LET all_blur_texture_views_but_last ==
            Take(render_targets.bloom_blur_downsample,
                 Len(render_targets.bloom_blur_downsample) - 1)
        src_texture_views == <<render_targets.bright_pass>> \o all_blur_texture_views_but_last
        pass(src_texture_view) ==
            BlurDownsampleRenderPass_new(device, src_texture_view.texture_view,
                                         HDR_TEXTURE_FORMAT,
                                         src_texture_view.width \div 2,
                                         src_texture_view.height \div 2)
    IN [k \in 1..Len(src_texture_views) |-> pass(src_texture_views[k])]

\* variant: the upsample chain starts from the first downsample level
new_bloom_blur_upsample_render_passes_FromFirst(device, render_targets) ==
    LET src_texture_views ==
            <<render_targets.bloom_blur_downsample[1]>>
            \o Take(render_targets.bloom_blur_upsample,
                    Len(render_targets.bloom_blur_upsample) - 1)
        pass(src_texture_view) ==
            BlurUpsampleRenderPass_new(device, src_texture_view.texture_view,
                                       HDR_TEXTURE_FORMAT,
                                       src_texture_view.width * 2,
                                       src_texture_view.height * 2)
    IN [k \in 1..Len(src_texture_views) |-> pass(src_texture_views[k])]

\* Renderer::new, lines 92-112
new_bloom_blur_upsample_render_passes(device, render_targets) ==
    LET last_blur_downsample_texture_view ==
            IF Len(render_targets.bloom_blur_downsample) = 0 THEN << >>
            ELSE <<Last(render_targets.bloom_blur_downsample)>>
        all_blur_downsample_texture_views_but_last ==
            Take(render_targets.bloom_blur_upsample,
                 Len(render_targets.bloom_blur_upsample) - 1)
        src_texture_views ==
            last_blur_downsample_texture_view \o all_blur_downsample_texture_views_but_last
        pass(src_texture_view) ==
            BlurUpsampleRenderPass_new(device, src_texture_view.texture_view,
                                       HDR_TEXTURE_FORMAT,
                                       src_texture_view.width * 2,
                                       src_texture_view.height * 2)
    IN [k \in 1..Len(src_texture_views) |-> pass(src_texture_views[k])]

\* variant: every pipeline, compose included, targets the HDR format
Renderer_new_ComposeHdr(window_size, preferred_format) ==
    LET surface_format == preferred_format
        width == window_size.width
        height == window_size.height
        device == Device_next(Device_new)
        render_targets == RenderTargets_new(device, width, height)
    IN [surface |-> configure_surface(surface_format, width, height),
        surface_format |-> surface_format,
        device |-> device,
        render_targets |-> render_targets,
        particle_renderer |->
            ParticleRendererBuilder_build(device, HDR_TEXTURE_FORMAT, DEPTH_TEXTURE_FORMAT),
        bright_pass_render_pass |->
            BrightPassRenderPass_new(device, render_targets.color.texture_view,
                                     HDR_TEXTURE_FORMAT),
        bloom_blur_downsample_render_passes |->
            new_bloom_blur_downsample_render_passes(device, render_targets),
        bloom_blur_upsample_render_passes |->
            new_bloom_blur_upsample_render_passes(device, render_targets),
        compose_render_pass |->
            ComposeRenderPass_new(device, render_targets.color.texture_view,
                                  Last(render_targets.bloom_blur_upsample).texture_view,
                                  HDR_TEXTURE_FORMAT)]

Renderer_new(window_size, preferred_format) ==
    LET surface_format == preferred_format
        width == window_size.width
        height == window_size.height
        device == Device_next(Device_new)
        render_targets == RenderTargets_new(device, width, height)
    IN [surface |-> configure_surface(surface_format, width, height),
        surface_format |-> surface_format,
        device |-> device,
        render_targets |-> render_targets,
        particle_renderer |->
            ParticleRendererBuilder_build(device, HDR_TEXTURE_FORMAT, DEPTH_TEXTURE_FORMAT),
        bright_pass_render_pass |->
            BrightPassRenderPass_new(device, render_targets.color.texture_view,
                                     HDR_TEXTURE_FORMAT),
        bloom_blur_downsample_render_passes |->
            new_bloom_blur_downsample_render_passes(device, render_targets),
        bloom_blur_upsample_render_passes |->
            new_bloom_blur_upsample_render_passes(device, render_targets),
        compose_render_pass |->
            ComposeRenderPass_new(device, render_targets.color.texture_view,
                                  Last(render_targets.bloom_blur_upsample).texture_view,
                                  surface_format)]

\* variant: resize builds the whole pass chain again, as Renderer::new does
Renderer_resize_RebuildAll(self, size) ==
    LET width == size.width
        height == size.height
        device == Device_next(self.device)
        render_targets == RenderTargets_new(device, width, height)
    IN [self EXCEPT
          !.surface = configure_surface(self.surface_format, width, height),
          !.device = device,
          !.render_targets = render_targets,
          !.bright_pass_render_pass =
              BrightPassRenderPass_new(device, render_targets.color.texture_view,
                                       HDR_TEXTURE_FORMAT),
          !.bloom_blur_downsample_render_passes =
              new_bloom_blur_downsample_render_passes(device, render_targets),
          !.bloom_blur_upsample_render_passes =
              new_bloom_blur_upsample_render_passes(device, render_targets),
          !.compose_render_pass =
              ComposeRenderPass_new(device, render_targets.color.texture_view,
                                    Last(render_targets.bloom_blur_upsample).texture_view,
                                    self.surface_format)]

\* variant: resize reconfigures the surface and keeps the old render targets
Renderer_resize_KeepTargets(self, size) ==
    [self EXCEPT
       !.surface = configure_surface(self.surface_format, size.width, size.height),
       !.device = Device_next(self.device)]

Renderer_resize(self, size) ==
    LET width == size.width
        height == size.height
        device == Device_next(self.device)
        render_targets == RenderTargets_new(device, width, height)
    IN [self EXCEPT
          !.surface = configure_surface(self.surface_format, width, height),
          !.device = device,
          !.render_targets = render_targets,
          !.bright_pass_render_pass =
              BrightPassRenderPass_new(device, render_targets.color.texture_view,
                                       HDR_TEXTURE_FORMAT),
          !.compose_render_pass =
              ComposeRenderPass_new(device, render_targets.color.texture_view,
                                    Last(render_targets.bloom_blur_upsample).texture_view,
                                    self.surface_format)]

(***************************************************************************)
(* Renderer::render.  The frame is the sequence of what the call does to   *)
(* the queue, the command encoder and the surface, in program order.       *)
(***************************************************************************)
NoView == View(0, "none", 0)

Ev(op, pass, index, target, depth, target_format, pipeline_format, samples) ==
    [op |-> op, pass |-> pass, index |-> index, target |-> target, depth |-> depth,
     target_format |-> target_format, pipeline_format |-> pipeline_format,
     samples |-> samples, uniform |-> 0]

\* the event with the uniform data it writes, or that its bind group reads;
\* 0 is a buffer nothing was written to
Uniform(ev, data) == [ev EXCEPT !.uniform = data]

WriteBuffer(pass) == Ev("write_buffer", pass, 0, NoView, NoView, "", "", {})
Submit == Ev("submit", "", 0, NoView, NoView, "", "", {})
Present == Ev("present", "", 0, NoView, NoView, "", "", {})

\* variant: the compose pass uniforms are not rewritten
render_updates_SkipCompose(self, scene) ==
    [self EXCEPT !.particle_renderer.uniform_buffer = scene,
                 !.bright_pass_render_pass.uniform_buffer = scene]

\* lines 187-189
render_updates(self, scene) ==
    [self EXCEPT !.particle_renderer.uniform_buffer = scene,
                 !.bright_pass_render_pass.uniform_buffer = scene,
                 !.compose_render_pass.uniform_buffer = scene]

render_update_events(scene) ==
    <<Uniform(WriteBuffer("particle"), scene),
      Uniform(WriteBuffer("bright_pass"), scene),
      Uniform(WriteBuffer("compose"), scene)>>

\* lines 195-264: the passes recorded before the surface texture is acquired
render_offscreen_passes(self) ==
    LET rt == self.render_targets
    IN <<Uniform(Ev("begin_render_pass", "particle", 0,
                    rt.color.texture_view, rt.depth.texture_view,
                    rt.color.format, self.particle_renderer.color_format, {}),
                 self.particle_renderer.uniform_buffer),
         Uniform(Ev("begin_render_pass", "bright_pass", 0,
                    rt.bright_pass.texture_view, NoView,
                    rt.bright_pass.format, self.bright_pass_render_pass.format,
                    {self.bright_pass_render_pass.src}),
                 self.bright_pass_render_pass.uniform_buffer)>>
       \o [k \in 1..Len(rt.bloom_blur_downsample) |->
             Ev("begin_render_pass", "downsample", k - 1,
                rt.bloom_blur_downsample[k].texture_view, NoView,
                rt.bloom_blur_downsample[k].format,
                self.bloom_blur_downsample_render_passes[k].format,
                {self.bloom_blur_downsample_render_passes[k].src})]
       \o [k \in 1..Len(rt.bloom_blur_upsample) |->
             Ev("begin_render_pass", "upsample", k - 1,
                rt.bloom_blur_upsample[k].texture_view, NoView,
                rt.bloom_blur_upsample[k].format,
                self.bloom_blur_upsample_render_passes[k].format,
                {self.bloom_blur_upsample_render_passes[k].src})]

\* variant: the frame is presented before the command buffer is submitted
render_onscreen_PresentFirst(self) ==
    <<Uniform(Ev("begin_render_pass", "compose", 0,
                 SurfaceView, NoView,
                 self.surface.format, self.compose_render_pass.format,
                 {self.compose_render_pass.color, self.compose_render_pass.bloom}),
              self.compose_render_pass.uniform_buffer),
      Present,
      Submit>>

\* lines 266-291: once the surface texture is there
render_onscreen(self) ==
    <<Uniform(Ev("begin_render_pass", "compose", 0,
                 SurfaceView, NoView,
                 self.surface.format, self.compose_render_pass.format,
                 {self.compose_render_pass.color, self.compose_render_pass.bloom}),
              self.compose_render_pass.uniform_buffer),
      Submit,
      Present>>

\* variant: a failed acquire is skipped over and the frame goes on
Renderer_render_IgnoreAcquire(self, scene, acquire_ok) ==
    LET updated == render_updates(self, scene)
        offscreen == render_update_events(scene) \o render_offscreen_passes(updated)
    IN [self |-> updated,
        log |-> offscreen \o render_onscreen(updated),
        panicked |-> ~acquire_ok]

\* get_current_texture().expect(..) panics when no texture can be acquired
Renderer_render(self, scene, acquire_ok) ==
    LET updated == render_updates(self, scene)
        offscreen == render_update_events(scene) \o render_offscreen_passes(updated)
    IN [self |-> updated,
        log |-> IF acquire_ok THEN offscreen \o render_onscreen(updated) ELSE offscreen,
        panicked |-> ~acquire_ok]

(***************************************************************************)
(* Spec: the bloom renderer under resize events and frames                 *)
(***************************************************************************)
ModIdle == mod_renderer = 0 /\ mod_frame = 0
RsIdle == rs_renderer = 0 /\ rs_frame = 0
MainIdle == main_loop = 0 /\ main_frame = 0
BloomPassIdle == bloom_pass = 0 /\ bloom_frame = 0
AppIdle == app_env = 0 /\ app = 0
InstancesIdle == particle = 0 /\ instances = 0
ParticleIdle ==
    /\ particle_renderer = 0 /\ particle_frame = 0
    /\ particle_pass = 0 /\ particle_pass_frame = 0
ProgramsIdle == MainIdle /\ BloomPassIdle /\ AppIdle /\ InstancesIdle /\ ParticleIdle

Init ==
    /\ \E window_size \in Sizes, preferred_format \in SurfaceFormats :
          renderer = Renderer_new(window_size, preferred_format)
    /\ frame_log = << >>
    /\ status = "running"
    /\ ModIdle
    /\ RsIdle
    /\ ProgramsIdle
    /\ program = "renderer/renderer.rs"

Resize ==
    /\ status = "running"
    /\ renderer.device.epoch <= MaxResizes
    /\ \E size \in Sizes : renderer' = Renderer_resize(renderer, size)
    /\ UNCHANGED <<frame_log, status, mod_vars, rs_vars, program_vars>>

Render ==
    /\ status = "running"
    /\ \E scene \in Scenes, acquire_ok \in BOOLEAN :
          LET r == Renderer_render(renderer, scene, acquire_ok)
          IN /\ renderer' = r.self
             /\ frame_log' = r.log
             /\ status' = IF r.panicked THEN "panicked" ELSE "running"
    /\ UNCHANGED <<mod_vars, rs_vars, program_vars>>

Next == Resize \/ Render

Spec == Init /\ [][Next]_vars

(***************************************************************************)
(* Textures and views of the two earlier renderers.  A texture has the     *)
(* identity the device gave it and the extent and format of its            *)
(* descriptor; a view keeps the texture it was created from.               *)
(***************************************************************************)
create_texture(device, label, width, height, format) ==
    [id |-> View(device.epoch, label, 0),
     width |-> width, height |-> height, format |-> format]

create_view(texture) ==
    [texture |-> texture.id, width |-> texture.width, height |-> texture.height]

(***************************************************************************)
(* src/renderer/mod.rs : Renderer                                          *)
(***************************************************************************)
mod_create_depth_texture(device, format, width, height) ==
    create_texture(device, "Depth texture", width, height, format)

mod_Renderer_new(window_size, preferred_format) ==
    LET device == Device_next(Device_new)
        width == window_size.width
        height == window_size.height
        surface_format == preferred_format
        depth_texture_format == DEPTH_TEXTURE_FORMAT
        depth_texture == mod_create_depth_texture(device, depth_texture_format, width, height)
    IN [surface |-> configure_surface(surface_format, width, height),
        surface_format |-> surface_format,
        device |-> device,
        depth_texture |-> depth_texture,
        depth_texture_format |-> depth_texture_format,
        depth_texture_view |-> create_view(depth_texture)]

\* resize assigns surface configuration and depth_texture; depth_texture_view
\* is not among the fields it writes
mod_Renderer_resize(self, size) ==
    LET device == Device_next(self.device)
    IN [self EXCEPT
          !.surface = configure_surface(self.surface_format, size.width, size.height),
          !.device = device,
          !.depth_texture =
              mod_create_depth_texture(device, self.depth_texture_format,
                                       size.width, size.height)]

\* the attachments of the one render pass of the frame: the surface's current
\* texture, which has the extent the surface is configured with, and the
\* stored depth view
mod_Renderer_render(self) ==
    [color |-> [width |-> self.surface.width, height |-> self.surface.height],
     depth |-> self.depth_texture_view,
     submitted |-> TRUE,
     presented |-> TRUE]

NoFrame == [color |-> [width |-> 0, height |-> 0],
            depth |-> create_view(create_texture(Device_new, "none", 0, 0, "")),
            submitted |-> FALSE,
            presented |-> FALSE]

BloomIdle == renderer = 0 /\ frame_log = << >>

ModInit ==
    /\ \E window_size \in Sizes, preferred_format \in SurfaceFormats :
          mod_renderer = mod_Renderer_new(window_size, preferred_format)
    /\ mod_frame = NoFrame
    /\ status = "running"
    /\ BloomIdle
    /\ RsIdle
    /\ ProgramsIdle
    /\ program = "renderer/mod.rs"

ModResize ==
    /\ status = "running"
    /\ mod_renderer.device.epoch <= MaxResizes
    /\ \E size \in Sizes : mod_renderer' = mod_Renderer_resize(mod_renderer, size)
    /\ UNCHANGED <<mod_frame, status, bloom_vars, rs_vars, program_vars>>

\* get_current_texture().expect(..): without a surface texture the call
\* panics before it reaches the render pass
ModRender ==
    /\ status = "running"
    /\ \E acquire_ok \in BOOLEAN :
          IF acquire_ok
          THEN mod_frame' = mod_Renderer_render(mod_renderer) /\ UNCHANGED status
          ELSE status' = "panicked" /\ UNCHANGED mod_frame
    /\ UNCHANGED <<mod_renderer, bloom_vars, rs_vars, program_vars>>

ModNext == ModResize \/ ModRender

SpecMod == ModInit /\ [][ModNext]_vars

(***************************************************************************)
(* src/renderer.rs : Renderer, FrameBuffers                                *)
(***************************************************************************)
COLOR_FORMAT == "Rgba16Float"
DEPTH_FORMAT == "Depth24PlusStencil8"

FrameBuffers_new(device, width, height) ==
    LET color_texture ==
            create_texture(device, "Offscreen Color Texture", width, height, COLOR_FORMAT)
        depth_texture ==
            create_texture(device, "Depth Texture", width, height, DEPTH_FORMAT)
    IN [color_texture |-> color_texture,
        color_texture_view |-> create_view(color_texture),
        depth_texture |-> depth_texture,
        depth_texture_view |-> create_view(depth_texture)]

FrameBuffers_resize(self, device, width, height) ==
    LET color_texture ==
            create_texture(device, "Offscreen Color Texture", width, height, COLOR_FORMAT)
        depth_texture ==
            create_texture(device, "Depth Texture", width, height, DEPTH_FORMAT)
    IN [self EXCEPT !.color_texture = color_texture,
                    !.color_texture_view = create_view(color_texture),
                    !.depth_texture = depth_texture,
                    !.depth_texture_view = create_view(depth_texture)]

create_composite_bind_group(uniform_buffer, color_texture_view) ==
    [uniform_buffer |-> uniform_buffer, color_texture_view |-> color_texture_view]

rs_Renderer_new(window_size, preferred_format) ==
    LET device == Device_next(Device_new)
        width == window_size.width
        height == window_size.height
        frame_buffers == FrameBuffers_new(device, width, height)
    IN [surface |-> configure_surface(preferred_format, width, height),
        device |-> device,
        frame_buffers |-> frame_buffers,
        particle_uniform_buffer |-> 0,
        composite_uniform_buffer |-> 0,
        composite_bind_group |->
            create_composite_bind_group("composite_uniform_buffer",
                                        frame_buffers.color_texture_view),
        composite_render_pipeline |-> [format |-> preferred_format]]

\* variant: resize recreates the frame buffers and keeps the bind group
rs_Renderer_resize_KeepBindGroup(self, width, height) ==
    LET device == Device_next(self.device)
        frame_buffers == FrameBuffers_resize(self.frame_buffers, device, width, height)
    IN [self EXCEPT
          !.surface = configure_surface(self.surface.format, width, height),
          !.device = device,
          !.frame_buffers = frame_buffers]

rs_Renderer_resize(self, width, height) ==
    LET device == Device_next(self.device)
        frame_buffers == FrameBuffers_resize(self.frame_buffers, device, width, height)
    IN [self EXCEPT
          !.surface = configure_surface(self.surface.format, width, height),
          !.device = device,
          !.frame_buffers = frame_buffers,
          !.composite_bind_group =
              create_composite_bind_group("composite_uniform_buffer",
                                          frame_buffers.color_texture_view)]

\* the frame of src/renderer.rs, in program order (lines 487-552)
rs_Renderer_render(self, scene) ==
    [self |-> [self EXCEPT !.particle_uniform_buffer = scene,
                           !.composite_uniform_buffer = scene],
     log |-> <<Ev("write_buffer", "particle", 0, NoView, NoView, "", "", {}),
               Ev("write_buffer", "composite", 0, NoView, NoView, "", "", {}),
               Ev("finish", "", 0, NoView, NoView, "", "", {}),
               Ev("begin_render_pass", "particle", 0,
                  self.frame_buffers.color_texture_view.texture,
                  self.frame_buffers.depth_texture_view.texture,
                  self.frame_buffers.color_texture.format, COLOR_FORMAT, {}),
               Ev("begin_render_pass", "composite", 0,
                  SurfaceView, NoView,
                  self.surface.format, self.composite_render_pipeline.format,
                  {self.composite_bind_group.color_texture_view.texture}),
               Submit,
               Present,
               Ev("recall", "", 0, NoView, NoView, "", "", {})>>]

RsInit ==
    /\ \E window_size \in Sizes, preferred_format \in SurfaceFormats :
          rs_renderer = rs_Renderer_new(window_size, preferred_format)
    /\ rs_frame = << >>
    /\ status = "running"
    /\ BloomIdle
    /\ ModIdle
    /\ ProgramsIdle
    /\ program = "renderer.rs"

RsResize ==
    /\ status = "running"
    /\ rs_renderer.device.epoch <= MaxResizes
    /\ \E size \in Sizes :
          rs_renderer' = rs_Renderer_resize(rs_renderer, size.width, size.height)
    /\ UNCHANGED <<rs_frame, status, bloom_vars, mod_vars, program_vars>>

\* lines 477-481: the surface texture is acquired first; expect(..) panics
\* before anything of the frame is written or recorded
RsRender ==
    /\ status = "running"
    /\ \E scene \in Scenes, acquire_ok \in BOOLEAN :
          IF acquire_ok
          THEN LET r == rs_Renderer_render(rs_renderer, scene)
               IN /\ rs_renderer' = r.self
                  /\ rs_frame' = r.log
                  /\ UNCHANGED status
          ELSE status' = "panicked" /\ UNCHANGED <<rs_renderer, rs_frame>>
    /\ UNCHANGED <<bloom_vars, mod_vars, program_vars>>

RsNext == RsResize \/ RsRender

SpecRs == RsInit /\ [][RsNext]_vars

(***************************************************************************)
(* src/main.rs: the event loop with its LocalExecutor and staging belt     *)
(* (SpecMain).  The tasks of the executor are the recall futures of the    *)
(* staging belt; a recall future is ready once the buffer-mapping          *)
(* callbacks of its chunks have run, which the device does while it        *)
(* handles queue.submit.                                                   *)
(***************************************************************************)
MaxTasks == 4

Min(a, b) == IF a < b THEN a ELSE b

\* an entry of the handler's trace: what is done, with the number of
\* scheduled tasks at that moment
MainEv(op, executer) == [op |-> op, runnable |-> executer.runnable]

LocalExecutor_new == [runnable |-> 0, pending |-> 0]

\* executer.spawn(fut).detach() schedules the new task
LocalExecutor_spawn(executer) == [executer EXCEPT !.runnable = @ + 1]

\* try_tick runs one scheduled task if there is one: the task is polled once
\* and is either finished (ready) or left waiting for its waker
LocalExecutor_try_tick(executer, ready) ==
    IF executer.runnable = 0
    THEN [executer |-> executer, ran |-> FALSE]
    ELSE [executer |-> [runnable |-> executer.runnable - 1,
                        pending |-> executer.pending + (IF ready THEN 0 ELSE 1)],
          ran |-> TRUE]

\* the wakers of up to woken waiting tasks are called
LocalExecutor_wake(executer, woken) ==
    LET n == Min(woken, executer.pending)
    IN [runnable |-> executer.runnable + n, pending |-> executer.pending - n]

RECURSIVE tick_loop(_, _)
\* line 441: while executer.try_tick() {}
tick_loop(executer, outcomes) ==
    LET ready == IF outcomes = << >> THEN TRUE ELSE Head(outcomes)
        t == LocalExecutor_try_tick(executer, ready)
        ev == MainEv("try_tick", executer)
    IN IF t.ran
       THEN LET rest == tick_loop(t.executer,
                                  IF outcomes = << >> THEN << >> ELSE Tail(outcomes))
            IN [executer |-> rest.executer, log |-> <<ev>> \o rest.log]
       ELSE [executer |-> executer, log |-> <<ev>>]

\* variant: the uniforms are written after the belt is finished
main_draw_WriteAfterFinish(executer, woken) ==
    LET submitted == LocalExecutor_wake(executer, woken)
        spawned == LocalExecutor_spawn(submitted)
    IN [executer |-> spawned,
        log |-> <<MainEv("finish", executer),
                  MainEv("write_buffer", executer),
                  MainEv("begin_render_pass", executer),
                  MainEv("submit", submitted),
                  MainEv("present", submitted),
                  MainEv("recall", submitted),
                  MainEv("spawn", spawned)>>]

\* lines 464-506: the frame, once the surface texture is there
main_draw(executer, woken) ==
    LET submitted == LocalExecutor_wake(executer, woken)
        spawned == LocalExecutor_spawn(submitted)
    IN [executer |-> spawned,
        log |-> <<MainEv("write_buffer", executer),
                  MainEv("finish", executer),
                  MainEv("begin_render_pass", executer),
                  MainEv("submit", submitted),
                  MainEv("present", submitted),
                  MainEv("recall", submitted),
                  MainEv("spawn", spawned)>>]

\* variant: the executor is ticked after the frame instead of before it
main_on_main_events_cleared_TickLast(self, outcomes, due, acquire_ok, woken) ==
    LET drawn == main_draw(self.executer, woken)
        ticked == tick_loop(self.executer, outcomes)
        ticked_last == tick_loop(drawn.executer, outcomes)
    IN IF ~due
       THEN [self |-> [self EXCEPT !.executer = ticked.executer],
             log |-> ticked.log, panicked |-> FALSE]
       ELSE IF ~acquire_ok
       THEN [self |-> self, log |-> << >>, panicked |-> TRUE]
       ELSE [self |-> [self EXCEPT !.executer = ticked_last.executer],
             log |-> drawn.log \o ticked_last.log, panicked |-> FALSE]

\* lines 440-507: Event::MainEventsCleared
main_on_main_events_cleared(self, outcomes, due, acquire_ok, woken) ==
    LET ticked == tick_loop(self.executer, outcomes)
        drawn == main_draw(ticked.executer, woken)
    IN IF ~due
       THEN [self |-> [self EXCEPT !.executer = ticked.executer],
             log |-> ticked.log, panicked |-> FALSE]
       ELSE IF ~acquire_ok
       THEN [self |-> [self EXCEPT !.executer = ticked.executer],
             log |-> ticked.log, panicked |-> TRUE]
       ELSE [self |-> [self EXCEPT !.executer = drawn.executer],
             log |-> ticked.log \o drawn.log, panicked |-> FALSE]

\* lines 387-409: left mouse button released, Escape released
main_on_window_event(self, event) ==
    IF event = "MouseInput" THEN [self EXCEPT !.cursor_locked = TRUE]
    ELSE IF event = "Escape" THEN [self EXCEPT !.cursor_locked = FALSE]
    ELSE self

WindowEvents == {"MouseInput", "Escape", "Other"}

main_new == [executer |-> LocalExecutor_new, cursor_locked |-> FALSE]

MainInit ==
    /\ main_loop = main_new
    /\ main_frame = << >>
    /\ status = "running"
    /\ program = "main.rs"
    /\ BloomIdle /\ ModIdle /\ RsIdle
    /\ BloomPassIdle /\ AppIdle /\ InstancesIdle /\ ParticleIdle

MainEventsCleared ==
    /\ status = "running"
    /\ \E outcomes \in [1..main_loop.executer.runnable -> BOOLEAN],
          due \in BOOLEAN, acquire_ok \in BOOLEAN, woken \in 0..MaxTasks :
          /\ due => main_loop.executer.runnable + main_loop.executer.pending < MaxTasks
          /\ LET r == main_on_main_events_cleared(main_loop, outcomes, due, acquire_ok, woken)
             IN /\ main_loop' = r.self
                /\ main_frame' = r.log
                /\ status' = IF r.panicked THEN "panicked" ELSE "running"
    /\ UNCHANGED <<renderer_vars, bloom_pass_vars, app_vars, instances_vars, particle_vars, program>>

MainWindowEvent ==
    /\ status = "running"
    /\ \E event \in WindowEvents : main_loop' = main_on_window_event(main_loop, event)
    /\ main_frame' = << >>
    /\ UNCHANGED <<status, renderer_vars, bloom_pass_vars, app_vars, instances_vars, particle_vars, program>>

MainNext == MainEventsCleared \/ MainWindowEvent

SpecMain == MainInit /\ [][MainNext]_vars

(***************************************************************************)
(* The two programs that upload uniforms through a staging belt:           *)
(* src/renderer.rs and src/main.rs                                         *)
(***************************************************************************)
StagingBeltInit ==
    \/ RsInit
    \/ MainInit

StagingBeltNext ==
    \/ program = "renderer.rs" /\ RsNext
    \/ program = "main.rs" /\ MainNext

SpecStagingBelt == StagingBeltInit /\ [][StagingBeltNext]_vars

(***************************************************************************)
(* src/frame_buffers.rs and src/bloom_pass.rs: the frame buffers and the   *)
(* bloom renderer that draws into them (SpecBloomPass).  FrameBuffers::new *)
(* and resize, BloomRenderer::new, recreate_bind_group and draw are the    *)
(* operations; a bind group is the texture view it binds.                  *)
(***************************************************************************)
BLOOM_FORMAT == "Rgba16Float"
bloom_divisor == 4
bloom_blur_buffer_count == 3
composite_slice_start == 3
composite_slice_end == 4

\* FrameBuffer::new_hdr_color; index tells the textures of one label apart
FrameBuffer_new_hdr_color(device, index, width, height) ==
    LET texture == [id |-> View(device.epoch, "HDR Color Texture", index),
                    width |-> width, height |-> height, format |-> BLOOM_FORMAT]
    IN [texture |-> texture, texture_view |-> create_view(texture), format |-> BLOOM_FORMAT]

\* frame_buffers.rs lines 144-154
create_bloom_blur_buffers(device, base_width, base_height) ==
    LET width == base_width \div bloom_divisor
        height == base_height \div bloom_divisor
    IN [k \in 1..bloom_blur_buffer_count |->
           FrameBuffer_new_hdr_color(device, k - 1, width, height)]

\* frame_buffers.rs FrameBuffers::new, lines 53-74; resize (lines 156-164)
\* creates every texture and view again
bloom_FrameBuffers_new(device, width, height) ==
    LET color_texture ==
            create_texture(device, "Offscreen Color Texture", width, height, COLOR_FORMAT)
        depth_texture ==
            create_texture(device, "Depth Texture", width, height, DEPTH_FORMAT)
        bright_texture ==
            create_texture(device, "Bloom Bright Texture",
                           width \div bloom_divisor, height \div bloom_divisor, BLOOM_FORMAT)
    IN [color_texture |-> color_texture,
        color_texture_view |-> create_view(color_texture),
        depth_texture |-> depth_texture,
        depth_texture_view |-> create_view(depth_texture),
        bright_texture |-> bright_texture,
        bright_texture_view |-> create_view(bright_texture),
        bloom_blur_buffers |-> create_bloom_blur_buffers(device, width, height)]

\* BlurPass::new and recreate_bind_group: the one bind group of the pass
create_blur_bind_group(frame_buffers) == frame_buffers.bright_texture_view

\* CompositePass::draw, lines 566-584: &self.composite_bind_groups[3..4]
\* panics when the slice reaches past the end.  The attachment,
\* frame_buffers.bloom_buffer, is no field of FrameBuffers in
\* src/frame_buffers.rs.
CompositePass_draw(composite_bind_groups, frame_buffers) ==
    IF composite_slice_end > Len(composite_bind_groups)
    THEN [log |-> << >>, panicked |-> TRUE]
    ELSE [log |-> [k \in 1..(composite_slice_end - composite_slice_start) |->
                     Ev("begin_render_pass", "composite", composite_slice_start + k - 1,
                        View(0, "bloom_buffer", 0), NoView, BLOOM_FORMAT, BLOOM_FORMAT,
                        {composite_bind_groups[composite_slice_start + k].texture})],
          panicked |-> FALSE]

\* BloomRenderer::new, lines 34-44, and recreate_bind_group, lines 46-58
BloomRenderer_new(frame_buffers) ==
    [bright_pass |-> [bright_bind_group |-> frame_buffers.color_texture_view],
     blur_pass |-> [blur_bind_group |-> create_blur_bind_group(frame_buffers)],
     composite_pass |->
         [composite_bind_groups |->
             [k \in DOMAIN frame_buffers.bloom_blur_buffers |->
                 frame_buffers.bloom_blur_buffers[k].texture_view]]]

\* BrightPass::draw, lines 247-265
BrightPass_draw(self, frame_buffers) ==
    <<Ev("begin_render_pass", "bright", 0,
         frame_buffers.bright_texture_view.texture, NoView, BLOOM_FORMAT, BLOOM_FORMAT,
         {self.bright_bind_group.texture})>>

\* BlurPass::draw, lines 390-408
BlurPass_draw(self, frame_buffers) ==
    [k \in DOMAIN frame_buffers.bloom_blur_buffers |->
        Ev("begin_render_pass", "blur", k - 1,
           frame_buffers.bloom_blur_buffers[k].texture_view.texture, NoView,
           BLOOM_FORMAT, BLOOM_FORMAT,
           {self.blur_bind_group.texture})]

\* BloomRenderer::draw, lines 71-75
BloomRenderer_draw(self, frame_buffers) ==
    LET composite == CompositePass_draw(self.composite_pass.composite_bind_groups,
                                        frame_buffers)
    IN [log |-> BrightPass_draw(self.bright_pass, frame_buffers)
                \o BlurPass_draw(self.blur_pass, frame_buffers)
                \o composite.log,
        panicked |-> composite.panicked]

BloomPassInit ==
    /\ \E size \in Sizes :
          LET device == Device_next(Device_new)
              frame_buffers == bloom_FrameBuffers_new(device, size.width, size.height)
          IN bloom_pass = [device |-> device,
                           frame_buffers |-> frame_buffers,
                           bloom_renderer |-> BloomRenderer_new(frame_buffers)]
    /\ bloom_frame = << >>
    /\ status = "running"
    /\ program = "bloom_pass.rs"
    /\ BloomIdle /\ ModIdle /\ RsIdle
    /\ MainIdle /\ AppIdle /\ InstancesIdle /\ ParticleIdle

\* FrameBuffers::resize
BloomPassResize ==
    /\ status = "running"
    /\ bloom_pass.device.epoch <= MaxResizes
    /\ \E size \in Sizes :
          LET device == Device_next(bloom_pass.device)
          IN bloom_pass' = [bloom_pass EXCEPT
                 !.device = device,
                 !.frame_buffers = bloom_FrameBuffers_new(device, size.width, size.height)]
    /\ UNCHANGED <<bloom_frame, status, renderer_vars, main_vars, app_vars,
                   instances_vars, particle_vars, program>>

\* BloomRenderer::recreate_bind_group
BloomPassRecreateBindGroup ==
    /\ status = "running"
    /\ bloom_pass' = [bloom_pass EXCEPT
           !.bloom_renderer = BloomRenderer_new(bloom_pass.frame_buffers)]
    /\ UNCHANGED <<bloom_frame, status, renderer_vars, main_vars, app_vars,
                   instances_vars, particle_vars, program>>

\* BloomRenderer::draw
BloomPassDraw ==
    /\ status = "running"
    /\ LET r == BloomRenderer_draw(bloom_pass.bloom_renderer, bloom_pass.frame_buffers)
       IN /\ bloom_frame' = r.log
          /\ status' = IF r.panicked THEN "panicked" ELSE "running"
    /\ UNCHANGED <<bloom_pass, renderer_vars, main_vars, app_vars, instances_vars, particle_vars, program>>

BloomPassNext == BloomPassResize \/ BloomPassRecreateBindGroup \/ BloomPassDraw

SpecBloomPass == BloomPassInit /\ [][BloomPassNext]_vars

(***************************************************************************)
(* src/app.rs: App, driven by the event loop of steel-tadpole/src/main.rs  *)
(* (SpecApp).  app is the Result of App::new; the handlers act on its      *)
(* value.  app_env is what the platform answered: the adapter, the         *)
(* preferred surface format, the device request, and for the last resize   *)
(* event its size and the inner size the window reported to the handler.   *)
(***************************************************************************)
MaxInnerWidth == 2
MaxInnerHeight == 2

\* the inner sizes the window takes and the sizes its resize events carry
InnerSizes == {[width |-> w, height |-> h] : w \in 1..MaxInnerWidth, h \in 1..MaxInnerHeight}

\* anyhow::Result
Ok(value) == [tag |-> "Ok", value |-> value, error |-> ""]
Err(error) == [tag |-> "Err", value |-> 0, error |-> error]

Adapters == {"None", "Some"}
PreferredFormats == SurfaceFormats \cup {"None"}
DeviceRequests == {"Ok", "Err"}

\* variant: a surface without preferred format gets the HDR format
Renderer_new_Result_DefaultFormat(window_size, adapter, preferred_format, request_device) ==
    IF adapter = "None" THEN Err("No adapter found")
    ELSE IF request_device = "Err" THEN Err("RequestDeviceError")
    ELSE Ok(Renderer_new(window_size,
                         IF preferred_format = "None" THEN HDR_TEXTURE_FORMAT
                         ELSE preferred_format))

\* Renderer::new, lines 33-52: the three `?` before anything is constructed
Renderer_new_Result(window_size, adapter, preferred_format, request_device) ==
    IF adapter = "None" THEN Err("No adapter found")
    ELSE IF preferred_format = "None" THEN Err("No preferred format found")
    ELSE IF request_device = "Err" THEN Err("RequestDeviceError")
    ELSE Ok(Renderer_new(window_size, preferred_format))

RECURSIVE GCD(_, _)
GCD(a, b) == IF b = 0 THEN a ELSE GCD(b, a % b)

\* width as f32 / height as f32: the quotient, as a fraction in lowest terms
AspectRatio(size) ==
    [num |-> size.width \div GCD(size.width, size.height),
     den |-> size.height \div GCD(size.width, size.height)]

\* the winit window as the event loop hands it over: cursor free and shown
Window_new == [cursor_grab |-> FALSE, cursor_visible |-> TRUE]

\* Angles are whole quarter turns (PI * 0.5), so a mouse delta of 1 stands
\* for PI * 0.5 / 0.001 pixels.  Quat::to_euler gives the yaw in (-PI, PI].
WrapTurn(angle) == ((angle + 1) % 4) - 1

Clamp(x, lo, hi) == IF x < lo THEN lo ELSE IF x > hi THEN hi ELSE x

\* Quat::from_euler(EulerRot::YXZ, ..) followed by to_euler(EulerRot::YXZ)
Quat_from_euler(yaw, pitch, roll) == [yaw |-> WrapTurn(yaw), pitch |-> pitch, roll |-> roll]

Quat_IDENTITY == Quat_from_euler(0, 0, 0)

\* App::new, lines 30-83.  fov is in degrees, exposure in tenths.
App_new(inner_size, adapter, preferred_format, request_device) ==
    LET scene == [camera |-> [rotation |-> Quat_IDENTITY,
                              fov |-> 60, aspect_ratio |-> AspectRatio(inner_size),
                              exposure |-> 10]]
        renderer_result ==
            Renderer_new_Result(inner_size, adapter, preferred_format, request_device)
    IN IF renderer_result.tag = "Err"
       THEN Err(renderer_result.error)
       ELSE Ok([window |-> Window_new,
                scene |-> scene,
                renderer |-> renderer_result.value,
                cursor_locked |-> FALSE])

\* variant: the aspect ratio is set before the size is looked at
App_on_resize_AspectFirst(self, size, current_inner_size) ==
    IF size.width > current_inner_size.width \/ size.height > current_inner_size.height
    THEN [self EXCEPT !.scene.camera.aspect_ratio = AspectRatio(size)]
    ELSE [self EXCEPT !.scene.camera.aspect_ratio = AspectRatio(size),
                      !.renderer = Renderer_resize(self.renderer, size)]

\* App::on_resize, lines 85-95
App_on_resize(self, size, current_inner_size) ==
    IF size.width > current_inner_size.width \/ size.height > current_inner_size.height
    THEN self
    ELSE [self EXCEPT !.scene.camera.aspect_ratio = AspectRatio(size),
                      !.renderer = Renderer_resize(self.renderer, size)]

AppInit ==
    /\ \E inner_size \in InnerSizes, adapter \in Adapters,
          preferred_format \in PreferredFormats, request_device \in DeviceRequests :
          /\ app_env = [adapter |-> adapter, preferred_format |-> preferred_format,
                        request_device |-> request_device,
                        size |-> inner_size, inner_size |-> inner_size]
          /\ app = App_new(inner_size, adapter, preferred_format, request_device)
    \* steel-tadpole/src/main.rs line 36: an Err ends main
    /\ status = IF app.tag = "Ok" THEN "running" ELSE "exited"
    /\ program = "app.rs"
    /\ BloomIdle /\ ModIdle /\ RsIdle
    /\ MainIdle /\ BloomPassIdle /\ InstancesIdle /\ ParticleIdle

\* WindowEvent::Resized and ScaleFactorChanged
AppResized ==
    /\ status = "running"
    /\ app.value.renderer.device.epoch <= MaxResizes
    /\ \E size \in InnerSizes, current_inner_size \in InnerSizes :
          /\ app_env' = [app_env EXCEPT !.size = size, !.inner_size = current_inner_size]
          /\ app' = [app EXCEPT !.value = App_on_resize(@, size, current_inner_size)]
    /\ UNCHANGED <<status, renderer_vars, main_vars, bloom_pass_vars, instances_vars, particle_vars, program>>

AppNext == AppResized

SpecApp == AppInit /\ [][AppNext]_vars

(***************************************************************************)
(* src/app.rs: the input handlers of App, driven by the event loop of      *)
(* steel-tadpole/src/main.rs lines 40-65 (SpecAppInput).  Scroll amounts   *)
(* are in tens of pixels, so that y * -0.1 is a whole number of degrees.   *)
(* app_env.cursor_event is the last of the mouse-up and Escape key-up      *)
(* events the loop delivered.                                              *)
(***************************************************************************)
MaxInputWidth == 2
MaxMouse == 1
MaxScroll == 1
MaxExposure == 1

InputSizes == {[width |-> w, height |-> 1] : w \in 1..MaxInputWidth}
Keycodes == {"Escape", "K", "J", "Other"}
MouseDeltas == (-MaxMouse..MaxMouse) \X (-MaxMouse..MaxMouse)
\* winit::event::MouseScrollDelta: 300 pixels or 5 lines a notch
ScrollDeltas == {[kind |-> "PixelDelta", y |-> 30 * k] : k \in -MaxScroll..MaxScroll}
                \cup {[kind |-> "LineDelta", y |-> 5 * k] : k \in -MaxScroll..MaxScroll}

\* App::on_mouse_up, lines 97-101; set_cursor_grab(..).unwrap() panics on Err
App_on_mouse_up(self, grab_ok) ==
    IF ~grab_ok
    THEN [self |-> self, panicked |-> TRUE]
    ELSE [self |-> [self EXCEPT !.window.cursor_grab = TRUE,
                                !.window.cursor_visible = FALSE,
                                !.cursor_locked = TRUE],
          panicked |-> FALSE]

\* variant: the exposure keys release the cursor lock as well
App_on_key_up_KeysUnlock(self, keycode, grab_ok) ==
    IF keycode = "Escape"
    THEN IF ~grab_ok
         THEN [self |-> self, panicked |-> TRUE]
         ELSE [self |-> [self EXCEPT !.window.cursor_grab = FALSE,
                                     !.window.cursor_visible = TRUE,
                                     !.cursor_locked = FALSE],
               panicked |-> FALSE]
    ELSE IF keycode = "K"
    THEN [self |-> [self EXCEPT !.scene.camera.exposure = @ + 1,
                                !.cursor_locked = FALSE], panicked |-> FALSE]
    ELSE IF keycode = "J"
    THEN [self |-> [self EXCEPT !.scene.camera.exposure = @ - 1,
                                !.cursor_locked = FALSE], panicked |-> FALSE]
    ELSE [self |-> self, panicked |-> FALSE]

\* App::on_key_up, lines 103-126
App_on_key_up(self, keycode, grab_ok) ==
    IF keycode = "Escape"
    THEN IF ~grab_ok
         THEN [self |-> self, panicked |-> TRUE]
         ELSE [self |-> [self EXCEPT !.window.cursor_grab = FALSE,
                                     !.window.cursor_visible = TRUE,
                                     !.cursor_locked = FALSE],
               panicked |-> FALSE]
    ELSE IF keycode = "K"
    THEN [self |-> [self EXCEPT !.scene.camera.exposure = @ + 1], panicked |-> FALSE]
    ELSE IF keycode = "J"
    THEN [self |-> [self EXCEPT !.scene.camera.exposure = @ - 1], panicked |-> FALSE]
    ELSE [self |-> self, panicked |-> FALSE]

\* variant: the camera turns whether or not the cursor is locked
App_on_mouse_move_Unguarded(self, x, y) ==
    LET rotation == self.scene.camera.rotation
    IN [self EXCEPT !.scene.camera.rotation =
           Quat_from_euler(rotation.yaw + x,
                           Clamp(rotation.pitch + y, -1, 1),
                           rotation.roll)]

\* App::on_mouse_move, lines 128-140
App_on_mouse_move(self, x, y) ==
    IF ~self.cursor_locked
    THEN self
    ELSE LET rotation == self.scene.camera.rotation
         IN [self EXCEPT !.scene.camera.rotation =
                Quat_from_euler(rotation.yaw + x,
                                Clamp(rotation.pitch + y, -1, 1),
                                rotation.roll)]

\* the scroll amount in tens of pixels: a line counts as 60.0 pixels
ScrollAmount(delta) == IF delta.kind = "PixelDelta" THEN delta.y ELSE delta.y * 6

\* variant: the field of view is clamped to [30, 120] before the scroll is added
App_on_mouse_scroll_ClampFirst(self, delta) ==
    IF ~self.cursor_locked
    THEN self
    ELSE [self EXCEPT !.scene.camera.fov = Clamp(@, 30, 120) - ScrollAmount(delta)]

\* App::on_mouse_scroll, lines 142-151
App_on_mouse_scroll(self, delta) ==
    IF ~self.cursor_locked
    THEN self
    ELSE [self EXCEPT !.scene.camera.fov = Clamp(@ - ScrollAmount(delta), 30, 120)]

AppInputInit ==
    /\ \E inner_size \in InputSizes, preferred_format \in SurfaceFormats :
          /\ app_env = [adapter |-> "Some", preferred_format |-> preferred_format,
                        request_device |-> "Ok",
                        size |-> inner_size, inner_size |-> inner_size,
                        cursor_event |-> "None"]
          /\ app = App_new(inner_size, "Some", preferred_format, "Ok")
    /\ status = "running"
    /\ program = "steel-tadpole/src/main.rs"
    /\ BloomIdle /\ ModIdle /\ RsIdle
    /\ MainIdle /\ BloomPassIdle /\ InstancesIdle /\ ParticleIdle

AppInputUnchanged ==
    UNCHANGED <<renderer_vars, main_vars, bloom_pass_vars, instances_vars, particle_vars, program>>

\* WindowEvent::Resized and ScaleFactorChanged, lines 43-46
AppInputResized ==
    /\ status = "running"
    /\ app.value.renderer.device.epoch <= MaxResizes
    /\ \E size \in InputSizes, current_inner_size \in InputSizes :
          app' = [app EXCEPT !.value = App_on_resize(@, size, current_inner_size)]
    /\ UNCHANGED <<app_env, status>>
    /\ AppInputUnchanged

\* WindowEvent::MouseInput, Released, Left: lines 47-51
AppMouseUp ==
    /\ status = "running"
    /\ \E grab_ok \in BOOLEAN :
          LET r == App_on_mouse_up(app.value, grab_ok)
          IN /\ app' = [app EXCEPT !.value = r.self]
             /\ status' = IF r.panicked THEN "panicked" ELSE "running"
             /\ app_env' = [app_env EXCEPT !.cursor_event = "MouseUp"]
    /\ AppInputUnchanged

\* WindowEvent::KeyboardInput, Released: lines 52-60
AppKeyUp ==
    /\ status = "running"
    /\ \E keycode \in Keycodes, grab_ok \in BOOLEAN :
          /\ keycode = "K" => app.value.scene.camera.exposure < 10 + MaxExposure
          /\ keycode = "J" => app.value.scene.camera.exposure > 10 - MaxExposure
          /\ LET r == App_on_key_up(app.value, keycode, grab_ok)
             IN /\ app' = [app EXCEPT !.value = r.self]
                /\ status' = IF r.panicked THEN "panicked" ELSE "running"
          /\ app_env' = IF keycode = "Escape"
                        THEN [app_env EXCEPT !.cursor_event = "Escape"]
                        ELSE app_env
    /\ AppInputUnchanged

\* DeviceEvent::MouseMotion, line 64
AppMouseMotion ==
    /\ status = "running"
    /\ \E delta \in MouseDeltas :
          app' = [app EXCEPT !.value = App_on_mouse_move(@, delta[1], delta[2])]
    /\ UNCHANGED <<app_env, status>>
    /\ AppInputUnchanged

\* DeviceEvent::MouseWheel, line 65
AppMouseWheel ==
    /\ status = "running"
    /\ \E delta \in ScrollDeltas :
          app' = [app EXCEPT !.value = App_on_mouse_scroll(@, delta)]
    /\ UNCHANGED <<app_env, status>>
    /\ AppInputUnchanged

AppInputNext ==
    \/ AppInputResized
    \/ AppMouseUp
    \/ AppKeyUp
    \/ AppMouseMotion
    \/ AppMouseWheel

SpecAppInput == AppInputInit /\ [][AppInputNext]_vars

(***************************************************************************)
(* src/renderer/particle/mod.rs: Instances::new (SpecInstances).           *)
(* Coordinates are whole numbers of some unit; the generator is seeded     *)
(* once and then stepped for every number drawn.                           *)
(***************************************************************************)
MaxCount == 2
MaxCoord == 1
MaxSeed == 10

Vec3s == {[x |-> a, y |-> b, z |-> c] : a \in 0..MaxCoord, b \in 0..MaxCoord, c \in 0..MaxCoord}

\* Vec3::ONE * k
Vec3_ONE(k) == [x |-> k, y |-> k, z |-> k]

\* (v, 1.0).into()
Vec4(v, w) == [x |-> v.x, y |-> v.y, z |-> v.z, w |-> w]

\* a range low..=high has a value on every axis
NonEmpty(range) ==
    /\ range[1].x <= range[2].x
    /\ range[1].y <= range[2].y
    /\ range[1].z <= range[2].z

\* the particle components a scene carries: ranges as App::new writes them,
\* low corner first
Particles ==
    {[max_count |-> n, position_range |-> <<lo, hi>>,
      color_range |-> <<Vec3_ONE(cl), Vec3_ONE(ch)>>] :
        n \in 0..MaxCount, lo \in Vec3s, hi \in Vec3s,
        cl \in 0..MaxCoord, ch \in 0..MaxCoord}

\* one step of the seeded generator
Rng_next(state) == (state * 5 + 3) % (MaxSeed + 1)

RECURSIVE Rng_nth(_, _)
\* the k-th number the generator seeded with seed hands out
Rng_nth(seed, k) == IF k = 0 THEN seed ELSE Rng_next(Rng_nth(seed, k - 1))

\* variant: the upper end is overshot by one
gen_range_Overshoot(low, high, raw) == low + (raw % (high - low + 2))

\* rng.gen_range(low..=high), for low <= high
gen_range(low, high, raw) == low + (raw % (high - low + 1))

\* the vec3 drawn for instance j from range, first = index of its first draw
gen_vec3(range, seed, first) ==
    [x |-> gen_range(range[1].x, range[2].x, Rng_nth(seed, first)),
     y |-> gen_range(range[1].y, range[2].y, Rng_nth(seed, first + 1)),
     z |-> gen_range(range[1].z, range[2].z, Rng_nth(seed, first + 2))]

\* Instances::new, lines 82-116; gen_range panics on an empty range
Instances_new(p, seed) ==
    IF p.max_count > 0 /\ ~(NonEmpty(p.position_range) /\ NonEmpty(p.color_range))
    THEN [tag |-> "Panic", value |-> << >>]
    ELSE [tag |-> "Ok",
          value |-> [j \in 1..p.max_count |->
                       [position |-> Vec4(gen_vec3(p.position_range, seed, 6 * (j - 1) + 1), 1),
                        color |-> Vec4(gen_vec3(p.color_range, seed, 6 * (j - 1) + 4), 1)]]]

InstancesInit ==
    /\ particle \in {p \in Particles : NonEmpty(p.position_range) /\ NonEmpty(p.color_range)}
    /\ instances = [tag |-> "None", value |-> << >>]
    /\ status = "running"
    /\ program = "renderer/particle/mod.rs"
    /\ BloomIdle /\ ModIdle /\ RsIdle
    /\ MainIdle /\ BloomPassIdle /\ AppIdle /\ ParticleIdle

InstancesNew ==
    /\ status = "running"
    /\ \E seed \in 0..MaxSeed :
          /\ instances' = Instances_new(particle, seed)
          /\ status' = IF instances'.tag = "Panic" THEN "panicked" ELSE "running"
    /\ UNCHANGED <<particle, particle_vars, renderer_vars, main_vars, bloom_pass_vars, app_vars, program>>

InstancesNext == InstancesNew

SpecInstances == InstancesInit /\ [][InstancesNext]_vars

(***************************************************************************)
(* src/renderer/particle/mod.rs: ParticleRenderer (SpecParticle).          *)
(* particle is the particle component of the scene handed to the last      *)
(* update, or to the builder before the first one.  The instance buffer is *)
(* its size in bytes, the number of instances the last write put into it   *)
(* and the component those instances were generated from.                  *)
(***************************************************************************)
\* size_of::<Instance>(): two Vec4 of four f32 of four bytes
size_of_Instance == 2 * 4 * 4

\* the particle components the scenes carry
SceneParticles ==
    {p \in Particles : /\ p.position_range = <<Vec3_ONE(0), Vec3_ONE(MaxCoord)>>
                       /\ NonEmpty(p.color_range)}

\* cast_slice(instances.as_slice()).len()
ByteLen(slice) == Len(slice) * size_of_Instance

ParticleEv(op, buffer, bytes, instance_count) ==
    [op |-> op, buffer |-> buffer, bytes |-> bytes, instance_count |-> instance_count]

\* ParticleRendererBuilder::build, lines 271-311
ParticleRendererBuilder_build_instance_buffer(scene, seed) ==
    LET particle_component == scene.particle
        contents == Instances_new(particle_component, seed).value
    IN [particle_cache |-> particle_component,
        instance_buffer |-> [size |-> ByteLen(contents),
                             written |-> Len(contents),
                             source |-> particle_component],
        instance_count |-> particle_component.max_count,
        uniform_buffer |-> 0]

\* ParticleRenderer::update, lines 131-140.  A write that overruns the
\* buffer is a validation error, which ends the program before the write.
ParticleRenderer_update(self, scene, seed) ==
    LET contents == Instances_new(scene.particle, seed).value
        write_instances == ParticleEv("write_buffer", "instance_buffer", ByteLen(contents), 0)
        write_uniforms == ParticleEv("write_buffer", "uniform_buffer", 0, 0)
    IN IF self.particle_cache # scene.particle
       THEN IF ByteLen(contents) > self.instance_buffer.size
            THEN [self |-> self, log |-> <<write_instances>>, panicked |-> TRUE]
            ELSE [self |-> [self EXCEPT !.instance_buffer.written = Len(contents),
                                        !.instance_buffer.source = scene.particle,
                                        !.uniform_buffer = scene],
                  log |-> <<write_instances, write_uniforms>>,
                  panicked |-> FALSE]
       ELSE [self |-> [self EXCEPT !.uniform_buffer = scene],
             log |-> <<write_uniforms>>,
             panicked |-> FALSE]

\* ParticleRenderer::draw, lines 142-148
ParticleRenderer_draw(self) ==
    <<ParticleEv("draw_indexed", "", 0, self.instance_count)>>

ParticleInit ==
    /\ \E p \in SceneParticles, seed \in 0..MaxSeed :
          /\ p.max_count >= 1
          /\ particle = p
          /\ particle_renderer = ParticleRendererBuilder_build_instance_buffer([particle |-> p], seed)
    /\ particle_frame = << >>
    /\ status = "running"
    /\ program = "renderer/particle/mod.rs"
    /\ instances = [tag |-> "None", value |-> << >>]
    /\ particle_pass = 0 /\ particle_pass_frame = 0
    /\ BloomIdle /\ ModIdle /\ RsIdle
    /\ MainIdle /\ BloomPassIdle /\ AppIdle

ParticleUnchanged ==
    UNCHANGED <<instances, particle_pass, particle_pass_frame,
                renderer_vars, main_vars, bloom_pass_vars, app_vars, program>>

\* renderer/renderer.rs line 187: the frame starts with update(queue, scene)
ParticleUpdate ==
    /\ status = "running"
    /\ \E p \in SceneParticles, seed \in 0..MaxSeed :
          LET r == ParticleRenderer_update(particle_renderer, [particle |-> p], seed)
          IN /\ particle' = p
             /\ particle_renderer' = r.self
             /\ particle_frame' = r.log
             /\ status' = IF r.panicked THEN "panicked" ELSE "running"
    /\ ParticleUnchanged

\* renderer/renderer.rs line 215: draw, once in the frame, after update
ParticleDraw ==
    /\ status = "running"
    /\ particle_frame # << >>
    /\ particle_frame[Len(particle_frame)].op # "draw_indexed"
    /\ particle_frame' = particle_frame \o ParticleRenderer_draw(particle_renderer)
    /\ UNCHANGED <<particle, particle_renderer, status>>
    /\ ParticleUnchanged

ParticleNext == ParticleUpdate \/ ParticleDraw

SpecParticle == ParticleInit /\ [][ParticleNext]_vars

(***************************************************************************)
(* src/particle_pass.rs: ParticleRenderer with its render bundle           *)
(* (SpecParticlePass).  particle is the particle system of the scene that  *)
(* ParticleRenderer::new was given; the uniform buffer holds the particle  *)
(* system of the scene of the last update.                                 *)
(***************************************************************************)
ParticleSystems == {[max_count |-> n, particle_size |-> 1] : n \in 0..MaxCount}

\* ParticleRenderer::new, lines 78-272: the bundle is encoded here; the
\* uniform buffer is created zeroed
pass_ParticleRenderer_new(scene) ==
    [particle_uniform_buffer |-> [max_count |-> 0, particle_size |-> 0],
     particle_render_bundle |->
         <<ParticleEv("draw_indexed", "", 0, scene.particle_system.max_count)>>]

\* variant: update encodes the bundle again from the scene it is given
pass_ParticleRenderer_update_Reencode(self, scene) ==
    [self EXCEPT !.particle_uniform_buffer = scene.particle_system,
                 !.particle_render_bundle =
                     <<ParticleEv("draw_indexed", "", 0, scene.particle_system.max_count)>>]

\* ParticleRenderer::update, lines 274-292
pass_ParticleRenderer_update(self, scene) ==
    [self EXCEPT !.particle_uniform_buffer = scene.particle_system]

\* ParticleRenderer::draw, lines 294-315
pass_ParticleRenderer_draw(self, frame_buffers) ==
    <<[op |-> "begin_render_pass",
       view |-> frame_buffers.color_texture_view,
       depth_view |-> frame_buffers.depth_texture_view,
       execute_bundles |-> self.particle_render_bundle]>>

ParticlePassInit ==
    /\ \E particle_system \in ParticleSystems :
          /\ particle = particle_system
          /\ particle_pass = pass_ParticleRenderer_new([particle_system |-> particle_system])
    /\ particle_pass_frame = << >>
    /\ status = "running"
    /\ program = "particle_pass.rs"
    /\ instances = [tag |-> "None", value |-> << >>]
    /\ particle_renderer = 0 /\ particle_frame = 0
    /\ BloomIdle /\ ModIdle /\ RsIdle
    /\ MainIdle /\ BloomPassIdle /\ AppIdle

ParticlePassUnchanged ==
    UNCHANGED <<particle, instances, particle_renderer, particle_frame, status,
                renderer_vars, main_vars, bloom_pass_vars, app_vars, program>>

ParticlePassUpdate ==
    /\ status = "running"
    /\ \E particle_system \in ParticleSystems :
          particle_pass' =
              pass_ParticleRenderer_update(particle_pass, [particle_system |-> particle_system])
    /\ UNCHANGED particle_pass_frame
    /\ ParticlePassUnchanged

ParticlePassDraw ==
    /\ status = "running"
    /\ \E size \in Sizes :
          particle_pass_frame' =
              pass_ParticleRenderer_draw(
                  particle_pass,
                  bloom_FrameBuffers_new(Device_next(Device_new), size.width, size.height))
    /\ UNCHANGED particle_pass
    /\ ParticlePassUnchanged

ParticlePassNext == ParticlePassUpdate \/ ParticlePassDraw

SpecParticlePass == ParticlePassInit /\ [][ParticlePassNext]_vars

(***************************************************************************)
(* Properties of the bloom renderer (Spec)                                 *)
(***************************************************************************)
Positions(op) == {i \in DOMAIN frame_log : frame_log[i].op = op}
PassEvents == SelectSeq(frame_log, LAMBDA e : e.op = "begin_render_pass")
PassNames == [k \in DOMAIN PassEvents |-> <<PassEvents[k].pass, PassEvents[k].index>>]
PassOrder == <<<<"particle", 0>>, <<"bright_pass", 0>>,
               <<"downsample", 0>>, <<"downsample", 1>>,
               <<"downsample", 2>>, <<"downsample", 3>>,
               <<"upsample", 0>>, <<"upsample", 1>>,
               <<"upsample", 2>>, <<"upsample", 3>>,
               <<"compose", 0>>>>
FrameDone == frame_log # << >> /\ status = "running"
PassPosition(pass, index) ==
    CHOOSE i \in DOMAIN frame_log :
        /\ frame_log[i].op = "begin_render_pass"
        /\ frame_log[i].pass = pass
        /\ frame_log[i].index = index

\* C1: in every frame that render() completes, the three uniform updates
\* (particle, bright-pass, compose) precede every render pass, the passes are
\* recorded in the order particle, bright-pass, downsample 0..3, upsample 0..3,
\* compose, the command buffer is submitted exactly once and after the compose
\* pass, and the frame is presented exactly once and after the submit.
C1_FrameOrder ==
    FrameDone =>
        /\ {frame_log[i].pass : i \in Positions("write_buffer")}
               = {"particle", "bright_pass", "compose"}
        /\ \A i \in Positions("write_buffer"), j \in Positions("begin_render_pass") : i < j
        /\ PassNames = PassOrder
        /\ Cardinality(Positions("submit")) = 1
        /\ Cardinality(Positions("present")) = 1
        /\ \A i \in Positions("begin_render_pass"), j \in Positions("submit") : i < j
        /\ \A i \in Positions("submit"), j \in Positions("present") : i < j

C1_Witness == FrameDone /\ renderer.device.epoch = 2

\* the views a pass of the chain must sample, given the render targets
ChainSource(rt, pass, index) ==
    IF pass = "bright_pass" THEN {rt.color.texture_view}
    ELSE IF pass = "downsample" THEN
        (IF index = 0 THEN {rt.bright_pass.texture_view}
         ELSE {rt.bloom_blur_downsample[index].texture_view})
    ELSE IF pass = "upsample" THEN
        (IF index = 0 THEN {Last(rt.bloom_blur_downsample).texture_view}
         ELSE {rt.bloom_blur_upsample[index].texture_view})
    ELSE {rt.color.texture_view, Last(rt.bloom_blur_upsample).texture_view}

PassSamples(r, pass, index) ==
    IF pass = "bright_pass" THEN {r.bright_pass_render_pass.src}
    ELSE IF pass = "downsample" THEN {r.bloom_blur_downsample_render_passes[index + 1].src}
    ELSE IF pass = "upsample" THEN {r.bloom_blur_upsample_render_passes[index + 1].src}
    ELSE {r.compose_render_pass.color, r.compose_render_pass.bloom}

PostPasses == {p \in {PassOrder[k] : k \in DOMAIN PassOrder} : p[1] # "particle"}

\* every texture view a post-processing pass of the frame samples is the
\* target of an earlier pass of the same frame, and (compose apart, which
\* also reads the colour target) of the pass right before it
FrameChained ==
    \A j \in Positions("begin_render_pass") :
        /\ \A v \in frame_log[j].samples :
              \E i \in Positions("begin_render_pass") : i < j /\ frame_log[i].target = v
        /\ frame_log[j].pass \notin {"particle", "compose"}
              => frame_log[j].samples = {frame_log[j - 1].target}
        /\ frame_log[j].pass = "compose"
              => frame_log[j].samples =
                     {frame_log[PassPosition("particle", 0)].target, frame_log[j - 1].target}

C3_NoStaleSample == FrameDone => FrameChained

(***************************************************************************)
(* Sizes                                                                   *)
(***************************************************************************)
SameSize(a, b) == a.width = b.width /\ a.height = b.height

\* C4: the resolution each blur pass is constructed with in Renderer::new
\* equals the size of the render target the pass draws into in render()
\* (downsample pass i into bloom_blur_downsample[i], upsample pass i into
\* bloom_blur_upsample[i]).
C4_BlurPassResolution ==
    renderer.device.epoch = 1 =>
        /\ \A k \in DOMAIN renderer.bloom_blur_downsample_render_passes :
              SameSize(renderer.bloom_blur_downsample_render_passes[k],
                       renderer.render_targets.bloom_blur_downsample[k])
        /\ \A k \in DOMAIN renderer.bloom_blur_upsample_render_passes :
              SameSize(renderer.bloom_blur_upsample_render_passes[k],
                       renderer.render_targets.bloom_blur_upsample[k])

DownsampleChain(rt) == <<rt.bright_pass>> \o rt.bloom_blur_downsample

\* C5: along bright_pass, bloom_blur_downsample[0..3] every target has half
\* (integer division) the width and the height of the target before it.
C5_DownsampleHalving ==
    LET chain == DownsampleChain(renderer.render_targets)
    IN \A k \in 2..Len(chain) :
          /\ chain[k].width = chain[k - 1].width \div 2
          /\ chain[k].height = chain[k - 1].height \div 2

AllPasses(r) ==
    {r.particle_renderer, r.bright_pass_render_pass, r.compose_render_pass}
    \cup {r.bloom_blur_downsample_render_passes[k] :
             k \in DOMAIN r.bloom_blur_downsample_render_passes}
    \cup {r.bloom_blur_upsample_render_passes[k] :
             k \in DOMAIN r.bloom_blur_upsample_render_passes}

BuiltOncePasses(r) ==
    {r.particle_renderer}
    \cup {r.bloom_blur_downsample_render_passes[k] :
             k \in DOMAIN r.bloom_blur_downsample_render_passes}
    \cup {r.bloom_blur_upsample_render_passes[k] :
             k \in DOMAIN r.bloom_blur_upsample_render_passes}

\* C6 as claimed: every pass and its pipeline is the one Renderer::new built.
C6_BuiltOnlyInNew == \A p \in AllPasses(renderer) : p.render_pipeline = 1

\* C6, amended: the particle renderer and the blur downsample/upsample passes
\* are the ones Renderer::new built; the bright-pass and the compose pass are
\* the ones built by the latest construction of the render targets, that is
\* by Renderer::new or by the last Renderer::resize; render() builds nothing.
C6_BuiltPerResize ==
    /\ \A p \in BuiltOncePasses(renderer) : p.render_pipeline = 1
    /\ renderer.bright_pass_render_pass.render_pipeline = renderer.device.epoch
    /\ renderer.compose_render_pass.render_pipeline = renderer.device.epoch
    /\ renderer.render_targets.color.texture_view.alloc = renderer.device.epoch

C6_Witness == renderer.device.epoch = 3 /\ FrameDone

\* C7: after Renderer::new and after every resize, the colour, depth and
\* bright-pass targets that render() uses have the width and height the
\* surface was last configured with.
C7_FullSizeTargets ==
    /\ SameSize(renderer.render_targets.color, renderer.surface)
    /\ SameSize(renderer.render_targets.depth, renderer.surface)
    /\ SameSize(renderer.render_targets.bright_pass, renderer.surface)
    /\ FrameDone /\ frame_log[PassPosition("particle", 0)].target.alloc = renderer.device.epoch
          => /\ frame_log[PassPosition("particle", 0)].target
                   = renderer.render_targets.color.texture_view
             /\ frame_log[PassPosition("particle", 0)].depth
                   = renderer.render_targets.depth.texture_view
             /\ frame_log[PassPosition("bright_pass", 0)].target
                   = renderer.render_targets.bright_pass.texture_view

C7_Witness ==
    /\ renderer.device.epoch = 2
    /\ FrameDone
    /\ frame_log[PassPosition("particle", 0)].target.alloc = 2
    /\ renderer.surface.width = MaxWidth
    /\ renderer.render_targets.bloom_blur_downsample[1].width # renderer.surface.width

C8_DepthMatchesSurface ==
    /\ SameSize(mod_renderer.depth_texture_view, mod_renderer.surface)
    /\ mod_frame.submitted => SameSize(mod_frame.depth, mod_frame.color)

(***************************************************************************)
(* Properties of src/renderer.rs (SpecRs)                                  *)
(***************************************************************************)
RsPosition(pass) ==
    CHOOSE i \in DOMAIN rs_frame :
        rs_frame[i].op = "begin_render_pass" /\ rs_frame[i].pass = pass

\* C9: after any sequence of resizes the composite bind group references the
\* colour texture view that frame_buffers holds, so in every frame the
\* composite pass samples the texture the particle pass of that frame rendered
\* into, never a colour texture a resize replaced.
C9_CompositeSamplesColor ==
    /\ rs_renderer.composite_bind_group.color_texture_view
           = rs_renderer.frame_buffers.color_texture_view
    /\ rs_renderer.frame_buffers.color_texture_view.texture
           = rs_renderer.frame_buffers.color_texture.id
    /\ rs_frame # << >> =>
           rs_frame[RsPosition("composite")].samples
               = {rs_frame[RsPosition("particle")].target}

C9_Witness ==
    /\ rs_renderer.device.epoch = 3
    /\ rs_frame # << >>
    /\ rs_frame[RsPosition("particle")].target = rs_renderer.frame_buffers.color_texture.id

(***************************************************************************)
(* Uniforms, failed acquires and divisors of src/renderer/renderer.rs      *)
(* (Spec)                                                                  *)
(***************************************************************************)
UniformPasses == {"particle", "bright_pass", "compose"}

\* C12: in every frame, each pass that reads a uniform buffer (particle,
\* bright-pass, compose) draws with a buffer that an earlier write_buffer of
\* the same render() call filled from that call's scene; all writes of the
\* frame carry the same scene and no such pass draws with a buffer that was
\* never written, also in the first frame after a resize.
C12_UniformsFromScene ==
    /\ \A i \in Positions("write_buffer"), j \in Positions("write_buffer") :
          frame_log[i].uniform = frame_log[j].uniform
    /\ \A j \in Positions("begin_render_pass") :
          frame_log[j].pass \in UniformPasses =>
              /\ frame_log[j].uniform # 0
              /\ \E i \in Positions("write_buffer") :
                    /\ i < j
                    /\ frame_log[i].pass = frame_log[j].pass
                    /\ frame_log[i].uniform = frame_log[j].uniform

C12_Witness ==
    /\ FrameDone
    /\ renderer.device.epoch = 2
    /\ frame_log[PassPosition("compose", 0)].uniform = MaxScene
    /\ frame_log[PassPosition("bright_pass", 0)].uniform = MaxScene

\* C14: when the surface texture cannot be acquired render() panics before
\* the compose pass is recorded: the frame has no compose pass, no submit and
\* no present, and the passes before the acquire were recorded.
C14_AcquireFailureAborts ==
    status = "panicked" =>
        /\ \A i \in DOMAIN frame_log :
              /\ frame_log[i].op \notin {"submit", "present"}
              /\ frame_log[i].pass # "compose" \/ frame_log[i].op = "write_buffer"
        /\ Len(PassEvents) = Len(PassOrder) - 1

C14_Witness ==
    /\ status = "panicked"
    /\ renderer.device.epoch = 2
    /\ Len(PassEvents) = Len(PassOrder) - 1

\* C20: the bloom downsample targets of levels 0,1,2,3 divide the window size
\* by 2, 4, 8, 16, the upsample targets in creation order by 8, 4, 2, 1, and
\* the last upsample target has the full window resolution.
C20_Divisors ==
    /\ [k \in 1..num_levels |-> DownsampleDivisor(k - 1)] = <<2, 4, 8, 16>>
    /\ [k \in 1..num_levels |-> UpsampleDivisor(num_levels - k)] = <<8, 4, 2, 1>>
    /\ SameSize(Last(renderer.render_targets.bloom_blur_upsample), renderer.surface)

(***************************************************************************)
(* Staging belt and executor (SpecStagingBelt, SpecMain)                   *)
(***************************************************************************)
At(log, op) == {i \in DOMAIN log : log[i].op = op}

\* the staging belt protocol of one frame: every write_buffer, then the one
\* finish, then the submit, then the one recall
BeltOrder(log) ==
    /\ Cardinality(At(log, "finish")) = 1
    /\ Cardinality(At(log, "submit")) = 1
    /\ Cardinality(At(log, "recall")) = 1
    /\ \A w \in At(log, "write_buffer"), f \in At(log, "finish") : w < f
    /\ \A f \in At(log, "finish"), q \in At(log, "submit") : f < q
    /\ \A q \in At(log, "submit"), r \in At(log, "recall") : q < r

BeltFrame == IF program = "main.rs" THEN main_frame ELSE rs_frame

\* C11: in every frame of src/renderer.rs Renderer::render and of the frame
\* body of src/main.rs the staging belt sees all write_buffer calls, then
\* exactly one finish, then the queue.submit, then exactly one recall; no
\* write_buffer lies between the finish and the recall.
C11_StagingBeltOrder ==
    At(BeltFrame, "write_buffer") # {} => BeltOrder(BeltFrame)

C11_Witness ==
    /\ program = "main.rs"
    /\ At(main_frame, "write_buffer") # {}
    /\ main_loop.executer.pending > 0

\* C17: in src/main.rs the tasks of the executor are polled only by the
\* try_tick loop at the start of a MainEventsCleared handler, before
\* anything else the handler does, and the loop ends with no task left
\* scheduled: when a frame performs its write_buffer, finish and submit no
\* task is runnable, so the recall task of the frame before was polled.
C17_PolledOnlyAtStart ==
    /\ \A t \in At(main_frame, "try_tick"), i \in DOMAIN main_frame :
          main_frame[i].op # "try_tick" => t < i
    /\ \A i \in DOMAIN main_frame :
          main_frame[i].op \in {"write_buffer", "finish", "begin_render_pass"}
              => main_frame[i].runnable = 0
    /\ \A t \in At(main_frame, "try_tick") :
          t < Cardinality(At(main_frame, "try_tick")) => main_frame[t].runnable > 0
    /\ main_frame # << >> =>
          main_frame[Cardinality(At(main_frame, "try_tick"))].runnable = 0

C17_Witness ==
    /\ Cardinality(At(main_frame, "try_tick")) = 3
    /\ main_loop.executer.pending = 1
    /\ At(main_frame, "write_buffer") # {}
    /\ main_loop.executer.runnable = 2

(***************************************************************************)
(* Properties of src/app.rs (SpecApp)                                      *)
(***************************************************************************)
\* C13: Renderer::new returns an Err and constructs no Renderer when no
\* adapter is found, when the surface has no preferred format, or when the
\* device request fails, and only then; App::new hands that error to its
\* caller, which ends without a panic.
C13_NewPropagatesErrors ==
    /\ app.tag = "Err" <=> \/ app_env.adapter = "None"
                           \/ app_env.preferred_format = "None"
                           \/ app_env.request_device = "Err"
    /\ app.tag = "Err" =>
          /\ app.value = 0
          /\ status = "exited"
          /\ app.error = Renderer_new_Result(app_env.size, app_env.adapter,
                                             app_env.preferred_format,
                                             app_env.request_device).error
          /\ app.error # ""
    /\ app.tag = "Ok" => status = "running"

C13_Witness ==
    /\ app.tag = "Err"
    /\ app_env.adapter = "Some"
    /\ app_env.preferred_format = "None"
    /\ app.error = "No preferred format found"

Exceeds(size, current_inner_size) ==
    size.width > current_inner_size.width \/ size.height > current_inner_size.height

\* C19: a resize event whose width or height exceeds the window's current
\* inner size changes neither the camera aspect ratio nor the renderer; any
\* other resize event sets the aspect ratio to width/height of the event
\* and resizes the renderer to that size; so the aspect ratio is always the
\* one of the size the renderer was last sized with.
C19_ResizeAllOrNothing ==
    /\ [](app.tag = "Ok" =>
             app.value.scene.camera.aspect_ratio
                 = AspectRatio(app.value.renderer.surface))
    /\ [][IF Exceeds(app_env'.size, app_env'.inner_size)
          THEN app' = app
          ELSE /\ app'.value.scene.camera.aspect_ratio = AspectRatio(app_env'.size)
               /\ SameSize(app'.value.renderer.surface, app_env'.size)
               /\ app'.value.renderer = Renderer_resize(app.value.renderer, app_env'.size)]_vars

C19_Witness ==
    /\ app.tag = "Ok"
    /\ app.value.renderer.device.epoch = 2
    /\ Exceeds(app_env.size, app_env.inner_size)
    /\ app.value.scene.camera.aspect_ratio # AspectRatio(app_env.size)

(***************************************************************************)
(* Properties of Instances::new (SpecInstances)                            *)
(***************************************************************************)
Within(v, range) ==
    /\ range[1].x <= v.x /\ v.x <= range[2].x
    /\ range[1].y <= v.y /\ v.y <= range[2].y
    /\ range[1].z <= v.z /\ v.z <= range[2].z

BloomDrawn == bloom_frame # << >>

BloomPassNames == [k \in DOMAIN bloom_frame |-> bloom_frame[k].pass]

\* C15: BloomRenderer::draw records the bright pass, then the blur passes,
\* then the composite pass; the blur pass that writes bloom_blur_buffers[k]
\* for k >= 1 samples bloom_blur_buffers[k-1] and only the blur pass that
\* writes bloom_blur_buffers[0] samples the bright texture.
C15_BlurCascade ==
    BloomDrawn =>
        /\ BloomPassNames[1] = "bright"
        /\ BloomPassNames[Len(bloom_frame)] = "composite"
        /\ \A i \in 2..(Len(bloom_frame) - 1) : BloomPassNames[i] = "blur"
        /\ \A i \in DOMAIN bloom_frame :
              bloom_frame[i].pass = "blur" =>
                  bloom_frame[i].samples = {bloom_frame[i - 1].target}

\* C16: BloomRenderer::draw never panics on an index out of range: the
\* slice CompositePass::draw takes of composite_bind_groups ends within the
\* bind groups created from the buffers of create_bloom_blur_buffers.
C16_CompositeIndexInRange ==
    /\ composite_slice_end
           <= Len(bloom_pass.bloom_renderer.composite_pass.composite_bind_groups)
    /\ status # "panicked"

(***************************************************************************)
(* Target sizes and pass counts of src/renderer/renderer.rs (Spec)         *)
(***************************************************************************)
AllTargets(rt) ==
    {rt.color, rt.depth, rt.bright_pass}
    \cup {rt.bloom_blur_downsample[k] : k \in DOMAIN rt.bloom_blur_downsample}
    \cup {rt.bloom_blur_upsample[k] : k \in DOMAIN rt.bloom_blur_upsample}

\* C21: for a window of width >= 1 and height >= 1 given to Renderer::new or
\* Renderer::resize, every render target of RenderTargets::new, every bloom
\* downsample and upsample level included, has width >= 1 and height >= 1.
C21_TargetsNonEmpty ==
    (renderer.surface.width >= 1 /\ renderer.surface.height >= 1) =>
        \A t \in AllTargets(renderer.render_targets) : t.width >= 1 /\ t.height >= 1

\* C22: after new and any sequence of resizes there are as many blur
\* downsample passes as downsample targets and as many blur upsample passes
\* as upsample targets, so every pass index render() uses is within the pass
\* vector.
C22_PassCounts ==
    /\ Len(renderer.bloom_blur_downsample_render_passes)
           = Len(renderer.render_targets.bloom_blur_downsample)
    /\ Len(renderer.bloom_blur_upsample_render_passes)
           = Len(renderer.render_targets.bloom_blur_upsample)
    /\ \A j \in Positions("begin_render_pass") :
          /\ frame_log[j].pass = "downsample" =>
                frame_log[j].index < Len(renderer.bloom_blur_downsample_render_passes)
          /\ frame_log[j].pass = "upsample" =>
                frame_log[j].index < Len(renderer.bloom_blur_upsample_render_passes)

C22_Witness ==
    /\ renderer.device.epoch = 3
    /\ FrameDone
    /\ Len(renderer.bloom_blur_downsample_render_passes) = num_levels
    /\ \E j \in Positions("begin_render_pass") :
          frame_log[j].pass = "upsample" /\ frame_log[j].index = num_levels - 1

\* C26: while App runs, cursor_locked is true exactly when the last of the
\* mouse-up and Escape key-up events delivered was a mouse-up; in every state
\* the cursor is grabbed iff cursor_locked and visible iff not cursor_locked;
\* a key-up of any key but Escape leaves cursor_locked as it was.
C26_CursorLock ==
    LET self == app.value
    IN /\ status = "running" =>
             (self.cursor_locked <=> app_env.cursor_event = "MouseUp")
       /\ self.window.cursor_grab <=> self.cursor_locked
       /\ self.window.cursor_visible <=> ~self.cursor_locked
       /\ \A keycode \in Keycodes \ {"Escape"}, grab_ok \in BOOLEAN :
             App_on_key_up(self, keycode, grab_ok).self.cursor_locked = self.cursor_locked

\* the cursor is locked and an exposure key was released since App::new
C26_Witness ==
    /\ status = "running"
    /\ app.value.cursor_locked
    /\ app.value.window.cursor_grab
    /\ app_env.cursor_event = "MouseUp"
    /\ app.value.scene.camera.exposure # 10

\* C27: while cursor_locked is false, on_mouse_move and on_mouse_scroll
\* return the App they were given, whatever the delta; and no step taken
\* from a state where cursor_locked is false changes the camera's rotation
\* or its field of view.
C27_UnlockedInputsIgnored ==
    /\ [](~app.value.cursor_locked =>
            /\ \A delta \in MouseDeltas :
                  App_on_mouse_move(app.value, delta[1], delta[2]).scene = app.value.scene
            /\ \A delta \in ScrollDeltas :
                  App_on_mouse_scroll(app.value, delta).scene = app.value.scene)
    /\ [][~app.value.cursor_locked =>
            /\ app'.value.scene.camera.rotation = app.value.scene.camera.rotation
            /\ app'.value.scene.camera.fov = app.value.scene.camera.fov]_vars

\* the camera was turned and zoomed under the lock, and the lock is released
C27_Witness ==
    /\ status = "running"
    /\ ~app.value.cursor_locked
    /\ app_env.cursor_event = "Escape"
    /\ app.value.scene.camera.rotation # Quat_IDENTITY
    /\ app.value.scene.camera.fov # 60

\* the scroll amount in pixels
ScrollPixels(delta) == IF delta.kind = "PixelDelta" THEN 10 * delta.y ELSE 60 * delta.y

FovAfterScroll(fov, delta) == Clamp(fov - (ScrollPixels(delta) \div 10), 30, 120)

\* C28 as stated: the field of view is within [30, 120], and every scroll
\* sets it to the old value minus 0.1 times the scroll amount, clamped.
C28_EveryScrollChangesFov ==
    /\ app.value.scene.camera.fov \in 30..120
    /\ \A delta \in ScrollDeltas :
          App_on_mouse_scroll(app.value, delta).scene.camera.fov
              = FovAfterScroll(app.value.scene.camera.fov, delta)

\* C28, amended: the field of view starts at 60 and is always within
\* [30, 120]; a scroll handled while cursor_locked is true sets it to the old
\* value minus 0.1 times the scroll amount, clamped to that range, and a
\* scroll handled while cursor_locked is false leaves it as it was.
C28_FovClamped ==
    /\ app.value.scene.camera.fov = 60
    /\ [](/\ app.value.scene.camera.fov \in 30..120
          /\ \A delta \in ScrollDeltas :
                App_on_mouse_scroll(app.value, delta).scene.camera.fov
                    = IF app.value.cursor_locked
                      THEN FovAfterScroll(app.value.scene.camera.fov, delta)
                      ELSE app.value.scene.camera.fov)

\* the field of view sits at the upper end of the range, the cursor is
\* locked and the window was resized since App::new
C28_Witness ==
    /\ status = "running"
    /\ app.value.cursor_locked
    /\ app.value.scene.camera.fov = 120
    /\ app.value.renderer.device.epoch > 1

InstanceWrites(log) ==
    {i \in DOMAIN log : log[i].op = "write_buffer" /\ log[i].buffer = "instance_buffer"}

\* C23: update regenerates and rewrites the instance buffer exactly when the
\* scene's particle component differs from the one the instances in the
\* buffer were generated from; a component that changes once and then stays
\* is written in one frame only.
C23_RewrittenOnlyOnChange ==
    status = "running" =>
        \A p \in SceneParticles, seed \in 0..MaxSeed :
            LET r == ParticleRenderer_update(particle_renderer, [particle |-> p], seed)
            IN ~r.panicked =>
                  (InstanceWrites(r.log) # {}
                       <=> p # particle_renderer.instance_buffer.source)

\* C24: every write of the instance buffer fits into the buffer allocated at
\* build time, and the instance count draw() uses is the number of instances
\* the last write put into the buffer.
C24_WritesFitAndCountMatches ==
    /\ \A i \in InstanceWrites(particle_frame) :
          particle_frame[i].bytes <= particle_renderer.instance_buffer.size
    /\ particle_renderer.instance_count = particle_renderer.instance_buffer.written

\* C25: every frame replays the bundle encoded in ParticleRenderer::new: the
\* instance range of its draw is 0..max_count of the scene new was given,
\* whatever particle system the last update was given.
C25_BundleReplayed ==
    /\ particle_pass.particle_render_bundle
           = pass_ParticleRenderer_new([particle_system |-> particle]).particle_render_bundle
    /\ \A i \in DOMAIN particle_pass_frame :
          /\ Len(particle_pass_frame[i].execute_bundles) = 1
          /\ particle_pass_frame[i].execute_bundles[1].op = "draw_indexed"
          /\ particle_pass_frame[i].execute_bundles[1].instance_count = particle.max_count

\* a frame drawn after an update with a scene of another max_count
C25_Witness ==
    /\ particle_pass_frame # << >>
    /\ particle_pass.particle_uniform_buffer.particle_size > 0
    /\ particle_pass.particle_uniform_buffer.max_count > particle.max_count

====
